---- MODULE Spec2Model ----
(***************************************************************************)
(* The SQL store of server/services/store/sqlstore/sqlstore.go: its        *)
(* constructor New, the connection-string inspection computeBinaryParam     *)
(* and the dialect helpers (escapeField, parameterPlaceholder,              *)
(* concatenationSelector, elementInColumn, durationSelector).               *)
(*                                                                         *)
(* A Go string is a sequence of one-character strings, so that the          *)
(* library calls the helpers make (strings.Fields, strings.Contains,        *)
(* strconv.Atoi, fmt.Sprintf, url.Parse, time.Format) are computed          *)
(* character by character.                                                  *)
(***************************************************************************)
EXTENDS Integers, Sequences, FiniteSets, TLC

(***************************************************************************)
(* Bounds of the model.                                                     *)
(***************************************************************************)
\* the largest ordinal parameterPlaceholder and elementInColumn are called with
MaxOrdinal == 12
\* the clock advances at most MaxTicks days after the instant the run starts at
MaxTicks == 1

(***************************************************************************)
(* Characters.                                                              *)
(***************************************************************************)
\* The grave accent: a TLA+ string cannot hold it ahead of a primed variable,
\* so the character is named by its code point.
Backtick == "U+0060"

DigitChars == <<"0", "1", "2", "3", "4", "5", "6", "7", "8", "9">>

LetterChars == <<"a", "b", "c", "d", "e", "f", "g", "h", "i", "j", "k", "l", "m", "n", "o", "p", "q", "r", "s", "t", "u", "v", "w", "x", "y", "z", "A", "B", "C", "D", "E", "F", "G", "H", "I", "J", "K", "L", "M", "N", "O", "P", "Q", "R", "S", "T", "U", "V", "W", "X", "Y", "Z">>

Range(s) == {s[i] : i \in 1..Len(s)}

IsDigit(c) == c \in Range(DigitChars)

IsLetter(c) == c \in Range(LetterChars)

\* unicode.IsSpace, restricted to the ASCII white space a TLA+ string can hold
IsSpace(c) == c \in {" ", "\t", "\n", "\r", "\f"}

DigitVal(c) == CHOOSE v \in 0..9 : DigitChars[v + 1] = c

(***************************************************************************)
(* package strings                                                          *)
(***************************************************************************)
RECURSIVE FieldsAcc(_, _, _)
FieldsAcc(s, cur, acc) ==
    IF s = <<>>
    THEN IF cur = <<>> THEN acc ELSE Append(acc, cur)
    ELSE IF IsSpace(Head(s))
         THEN FieldsAcc(Tail(s), <<>>, IF cur = <<>> THEN acc ELSE Append(acc, cur))
         ELSE FieldsAcc(Tail(s), Append(cur, Head(s)), acc)

\* strings.Fields: the maximal runs of non-space characters, in order
Fields(s) == FieldsAcc(s, <<>>, <<>>)

\* strings.Contains
Contains(s, substr) ==
    \E i \in 1..(Len(s) - Len(substr) + 1) : SubSeq(s, i, i + Len(substr) - 1) = substr

HasPrefix(s, prefix) ==
    Len(s) >= Len(prefix) /\ SubSeq(s, 1, Len(prefix)) = prefix

\* strings.Index and strings.LastIndex for a one-character separator,
\* 1-based; 0 when the character does not occur
Index(s, c) ==
    IF \E i \in 1..Len(s) : s[i] = c
    THEN CHOOSE i \in 1..Len(s) : s[i] = c /\ \A j \in 1..(i - 1) : s[j] # c
    ELSE 0

LastIndex(s, c) ==
    IF \E i \in 1..Len(s) : s[i] = c
    THEN CHOOSE i \in 1..Len(s) : s[i] = c /\ \A j \in (i + 1)..Len(s) : s[j] # c
    ELSE 0

\* strings.Cut
Cut(s, c) ==
    LET i == Index(s, c)
    IN  IF i = 0
        THEN [before |-> s, after |-> <<>>, found |-> FALSE]
        ELSE [before |-> SubSeq(s, 1, i - 1), after |-> SubSeq(s, i + 1, Len(s)),
              found |-> TRUE]

(***************************************************************************)
(* package strconv and the %v verb of fmt.Sprintf                           *)
(***************************************************************************)
RECURSIVE FormatUint(_)
FormatUint(n) ==
    IF n < 10 THEN <<DigitChars[n + 1]>>
    ELSE FormatUint(n \div 10) \o <<DigitChars[(n % 10) + 1]>>

\* fmt.Sprintf("%v", n) of an int: its decimal digits, "-" before a negative
FormatInt(n) == IF n < 0 THEN <<"-">> \o FormatUint(-n) ELSE FormatUint(n)

RECURSIVE DecimalValue(_)
DecimalValue(digits) ==
    IF digits = <<>> THEN 0
    ELSE 10 * DecimalValue(SubSeq(digits, 1, Len(digits) - 1))
         + DigitVal(digits[Len(digits)])

RECURSIVE TrimZeros(_)
TrimZeros(digits) ==
    IF Len(digits) > 1 /\ Head(digits) = "0" THEN TrimZeros(Tail(digits)) ELSE digits

RECURSIVE DigitsLeq(_, _)
DigitsLeq(a, b) ==
    IF a = <<>> THEN TRUE
    ELSE IF DigitVal(Head(a)) # DigitVal(Head(b))
         THEN DigitVal(Head(a)) < DigitVal(Head(b))
         ELSE DigitsLeq(Tail(a), Tail(b))

\* the digits of the largest int (1<<63 - 1) and of the magnitude of the smallest
MaxIntDigits == <<"9", "2", "2", "3", "3", "7", "2", "0", "3", "6", "8", "5", "4", "7", "7", "5", "8", "0", "7">>

MinIntDigits == <<"9", "2", "2", "3", "3", "7", "2", "0", "3", "6", "8", "5", "4", "7", "7", "5", "8", "0", "8">>

\* whether a digit string is a magnitude an int can hold, decided on the digits
FitsInt(digits, neg) ==
    LET d == TrimZeros(digits)
        lim == IF neg THEN MinIntDigits ELSE MaxIntDigits
    IN  Len(d) < Len(lim) \/ (Len(d) = Len(lim) /\ DigitsLeq(d, lim))

\* strconv.Atoi: an optional sign, then decimal digits only, in the range of int
Atoi(s) ==
    LET signed == s # <<>> /\ Head(s) \in {"-", "+"}
        neg == s # <<>> /\ Head(s) = "-"
        digits == IF signed THEN Tail(s) ELSE s
    IN  IF digits = <<>> \/ \E i \in 1..Len(digits) : ~IsDigit(digits[i])
        THEN [val |-> 0, err |-> "ErrSyntax"]
        ELSE IF ~FitsInt(digits, neg)
             THEN [val |-> 0, err |-> "ErrRange"]
             ELSE [val |-> IF neg THEN -DecimalValue(digits) ELSE DecimalValue(digits),
                   err |-> ""]

(***************************************************************************)
(* package net/url, as far as computeBinaryParam uses it: whether a         *)
(* connection string parses, and the first value of a query parameter.      *)
(* Hosts in square brackets (IPv6 literals) are left out: no connection      *)
(* string of the model has one.                                             *)
(***************************************************************************)
LowerHexChars == <<"0", "1", "2", "3", "4", "5", "6", "7", "8", "9", "a", "b", "c", "d", "e", "f">>

UpperHexChars == <<"0", "1", "2", "3", "4", "5", "6", "7", "8", "9", "A", "B", "C", "D", "E", "F">>

IsHex(c) == c \in Range(LowerHexChars) \cup Range(UpperHexChars)

HexVal(c) ==
    IF c \in Range(LowerHexChars)
    THEN (CHOOSE v \in 0..15 : LowerHexChars[v + 1] = c)
    ELSE (CHOOSE v \in 0..15 : UpperHexChars[v + 1] = c)

\* the printable ASCII characters, from the space (code 32) on
PrintableChars == <<" ", "!", "\"", "#", "$", "%", "&", "'", "(", ")", "*", "+", ",", "-", ".", "/", "0", "1", "2", "3", "4", "5", "6", "7", "8", "9", ":", ";", "<", "=", ">", "?", "@", "A", "B", "C", "D", "E", "F", "G", "H", "I", "J", "K", "L", "M", "N", "O", "P", "Q", "R", "S", "T", "U", "V", "W", "X", "Y", "Z", "[", "\\", "]", "^", "_", Backtick, "a", "b", "c", "d", "e", "f", "g", "h", "i", "j", "k", "l", "m", "n", "o", "p", "q", "r", "s", "t", "u", "v", "w", "x", "y", "z", "{", "|", "}", "~">>

\* the character a byte decodes to; a byte outside the printable range is
\* named by its two hexadecimal digits
ByteChar(hi, lo) ==
    LET code == 16 * hi + lo
    IN  IF code >= 32 /\ code - 31 <= Len(PrintableChars)
        THEN PrintableChars[code - 31]
        ELSE "0x" \o UpperHexChars[hi + 1] \o UpperHexChars[lo + 1]

\* stringContainsCTLByte, for the control characters a TLA+ string can hold
stringContainsCTLByte(s) == \E i \in 1..Len(s) : s[i] \in {"\t", "\n", "\r", "\f"}

\* shouldEscape(c, encodeHost): what may not stand unescaped in a host
shouldEscapeHost(c) ==
    ~(IsLetter(c) \/ IsDigit(c) \/ c \in Range(<<"!", "$", "&", "'", "(", ")", "*", "+", ",", ";", "=", ":", "[", "]", "<", ">", "\"", "-", "_", ".", "~">>))

\* unescape: mode is "host", "userPassword", "path", "fragment" or
\* "queryComponent"; acc is what is decoded so far
RECURSIVE unescapeAcc(_, _, _)
unescapeAcc(s, mode, acc) ==
    IF s = <<>> THEN [out |-> acc, err |-> ""]
    ELSE IF Head(s) = "%"
    THEN IF Len(s) < 3 \/ ~IsHex(s[2]) \/ ~IsHex(s[3])
         THEN [out |-> <<>>, err |-> "invalid URL escape"]
         ELSE IF mode = "host" /\ HexVal(s[2]) < 8 /\ SubSeq(s, 1, 3) # <<"%", "2", "5">>
         THEN [out |-> <<>>, err |-> "invalid URL escape"]
         ELSE unescapeAcc(SubSeq(s, 4, Len(s)), mode,
                          Append(acc, ByteChar(HexVal(s[2]), HexVal(s[3]))))
    ELSE IF mode = "host" /\ shouldEscapeHost(Head(s))
    THEN [out |-> <<>>, err |-> "invalid character in host name"]
    ELSE unescapeAcc(Tail(s), mode,
                     Append(acc, IF Head(s) = "+" /\ mode = "queryComponent"
                                 THEN " " ELSE Head(s)))

unescape(s, mode) == unescapeAcc(s, mode, <<>>)

RECURSIVE getSchemeAt(_, _)
getSchemeAt(rawURL, i) ==
    IF i > Len(rawURL) THEN [scheme |-> <<>>, rest |-> rawURL, err |-> ""]
    ELSE IF IsLetter(rawURL[i]) THEN getSchemeAt(rawURL, i + 1)
    ELSE IF IsDigit(rawURL[i]) \/ rawURL[i] \in {"+", "-", "."}
    THEN IF i = 1 THEN [scheme |-> <<>>, rest |-> rawURL, err |-> ""]
         ELSE getSchemeAt(rawURL, i + 1)
    ELSE IF rawURL[i] = ":"
    THEN IF i = 1 THEN [scheme |-> <<>>, rest |-> <<>>, err |-> "missing protocol scheme"]
         ELSE [scheme |-> SubSeq(rawURL, 1, i - 1),
               rest |-> SubSeq(rawURL, i + 1, Len(rawURL)), err |-> ""]
    ELSE [scheme |-> <<>>, rest |-> rawURL, err |-> ""]

\* getScheme: a scheme is letters, then letters, digits, "+", "-" and "." up to
\* the first ":"; a string that starts with ":" has none to name
getScheme(rawURL) == getSchemeAt(rawURL, 1)

validOptionalPort(port) ==
    port = <<>> \/ (Head(port) = ":" /\ \A i \in 2..Len(port) : IsDigit(port[i]))

\* the first error of two, "" when neither is one
FirstErr(e1, e2) == IF e1 # "" THEN e1 ELSE e2

parseHost(host) ==
    IF LastIndex(host, ":") # 0
       /\ ~validOptionalPort(SubSeq(host, LastIndex(host, ":"), Len(host)))
    THEN "invalid port after host"
    ELSE unescape(host, "host").err

validUserinfo(s) ==
    \A i \in 1..Len(s) :
        IsLetter(s[i]) \/ IsDigit(s[i]) \/ s[i] \in Range(<<"-", ".", "_", ":", "~", "!", "$", "&", "'", "(", ")", "*", "+", ",", ";", "=", "%", "@">>)

\* parseAuthority, for the user name and password before the last "@"
parseUserinfo(userinfo) ==
    IF ~validUserinfo(userinfo) THEN "invalid userinfo"
    ELSE FirstErr(unescape(Cut(userinfo, ":").before, "userPassword").err,
                  unescape(Cut(userinfo, ":").after, "userPassword").err)

\* parseAuthority: the error of parsing [userinfo@]host[:port], "" when none
parseAuthority(authority) ==
    FirstErr(parseHost(SubSeq(authority, LastIndex(authority, "@") + 1, Len(authority))),
             IF LastIndex(authority, "@") = 0 THEN ""
             ELSE parseUserinfo(SubSeq(authority, 1, LastIndex(authority, "@") - 1)))

\* the URL parse returns: of its fields the model keeps RawQuery
ParsedURL(RawQuery, err) ==
    IF err # "" THEN [RawQuery |-> <<>>, err |-> err] ELSE [RawQuery |-> RawQuery, err |-> ""]

\* the authority of a rest that starts with "//" and the path after it
AuthorityOf(rest) ==
    IF Index(SubSeq(rest, 3, Len(rest)), "/") = 0 THEN SubSeq(rest, 3, Len(rest))
    ELSE SubSeq(rest, 3, Index(SubSeq(rest, 3, Len(rest)), "/") + 1)

PathAfterAuthority(rest) ==
    IF Index(SubSeq(rest, 3, Len(rest)), "/") = 0 THEN <<>>
    ELSE SubSeq(rest, Index(SubSeq(rest, 3, Len(rest)), "/") + 2, Len(rest))

\* parse, from the scheme on: rest is what follows the scheme, without the query
parseRest(scheme, rest, RawQuery) ==
    IF ~HasPrefix(rest, <<"/">>) /\ scheme # <<>> THEN ParsedURL(RawQuery, "")
    ELSE IF ~HasPrefix(rest, <<"/">>) /\ Contains(Cut(rest, "/").before, <<":">>)
    THEN ParsedURL(RawQuery, "first path segment in URL cannot contain colon")
    ELSE IF (scheme # <<>> \/ ~HasPrefix(rest, <<"/", "/", "/">>)) /\ HasPrefix(rest, <<"/", "/">>)
    THEN ParsedURL(RawQuery, FirstErr(parseAuthority(AuthorityOf(rest)),
                                      unescape(PathAfterAuthority(rest), "path").err))
    ELSE ParsedURL(RawQuery, unescape(rest, "path").err)

\* parse, once getScheme has split the scheme off: the query is cut off at the
\* first "?"
parseAfterScheme(gs) ==
    IF gs.err # "" THEN ParsedURL(<<>>, gs.err)
    ELSE parseRest(gs.scheme, Cut(gs.rest, "?").before, Cut(gs.rest, "?").after)

\* parse(rawURL, viaRequest = false)
parse(rawURL) ==
    IF stringContainsCTLByte(rawURL)
    THEN ParsedURL(<<>>, "invalid control character in URL")
    ELSE IF rawURL = <<"*">> THEN ParsedURL(<<>>, "")
    ELSE parseAfterScheme(getScheme(rawURL))

\* url.Parse: the fragment is cut off at the first "#" and unescaped last
setFragment(url, frag) ==
    IF url.err # "" THEN url ELSE ParsedURL(url.RawQuery, unescape(frag, "fragment").err)

urlParse(rawURL) == setFragment(parse(Cut(rawURL, "#").before), Cut(rawURL, "#").after)

\* url.ParseQuery, its error dropped as URL.Query drops it: the key=value
\* pairs between "&", in order, without the pairs that are empty or do not
\* unescape (no connection string of the model has a ";")
addPair(acc, pair, key, value) ==
    IF pair = <<>> \/ key.err # "" \/ value.err # "" THEN acc
    ELSE Append(acc, [key |-> key.out, value |-> value.out])

RECURSIVE parseQueryAcc(_, _)
parseQueryAcc(query, acc) ==
    IF query = <<>> THEN acc
    ELSE parseQueryAcc(Cut(query, "&").after,
                       addPair(acc, Cut(query, "&").before,
                               unescape(Cut(Cut(query, "&").before, "=").before,
                                        "queryComponent"),
                               unescape(Cut(Cut(query, "&").before, "=").after,
                                        "queryComponent")))

parseQuery(query) == parseQueryAcc(query, <<>>)

\* Values.Get: the first value of the key, the empty string when it has none
Get(values, key) ==
    IF \E i \in 1..Len(values) : values[i].key = key
    THEN values[CHOOSE i \in 1..Len(values) :
                    values[i].key = key /\ \A j \in 1..(i - 1) : values[j].key # key].value
    ELSE <<>>

(***************************************************************************)
(* package time: a wall-clock instant is its calendar date and time of day, *)
(* read in UTC.                                                             *)
(***************************************************************************)
IsLeap(year) == year % 4 = 0 /\ (year % 100 # 0 \/ year % 400 = 0)

DaysIn(month, year) ==
    IF month = 2 THEN (IF IsLeap(year) THEN 29 ELSE 28)
    ELSE IF month \in {4, 6, 9, 11} THEN 30 ELSE 31

\* a day of the month outside 1..DaysIn rolls over into the neighbouring months
RECURSIVE NormDay(_, _, _)
NormDay(year, month, day) ==
    IF day < 1
    THEN LET py == IF month = 1 THEN year - 1 ELSE year
             pm == IF month = 1 THEN 12 ELSE month - 1
         IN  NormDay(py, pm, day + DaysIn(pm, py))
    ELSE IF day > DaysIn(month, year)
         THEN NormDay(IF month = 12 THEN year + 1 ELSE year,
                      IF month = 12 THEN 1 ELSE month + 1,
                      day - DaysIn(month, year))
         ELSE [year |-> year, month |-> month, day |-> day]

\* time.Date: the month is normalised into 1..12 first, carrying into the year,
\* then the day into the month
Date(year, month, day, hour, min, sec) ==
    LET m0 == month - 1
        d == NormDay(year + (m0 \div 12), (m0 % 12) + 1, day)
    IN  [year |-> d.year, month |-> d.month, day |-> d.day,
         hour |-> hour, min |-> min, sec |-> sec]

\* Time.AddDate
AddDate(t, years, months, days) ==
    Date(t.year + years, t.month + months, t.day + days, t.hour, t.min, t.sec)

\* a non-negative number in at least width digits, zero-padded on the left
RECURSIVE Pad(_, _)
Pad(n, width) ==
    IF width <= 1 THEN FormatUint(n)
    ELSE IF Len(FormatUint(n)) >= width THEN FormatUint(n)
         ELSE <<"0">> \o Pad(n, width - 1)

\* Time.Format(time.RFC3339), "2006-01-02T15:04:05Z07:00", of a UTC instant
FormatRFC3339(t) ==
    Pad(t.year, 4) \o <<"-">> \o Pad(t.month, 2) \o <<"-">> \o Pad(t.day, 2) \o <<"T">>
    \o Pad(t.hour, 2) \o <<":">> \o Pad(t.min, 2) \o <<":">> \o Pad(t.sec, 2) \o <<"Z">>

(***************************************************************************)
(* The dialect helpers.  s is the receiver, a store record.                 *)
(***************************************************************************)
PostgresDBType == "postgres"

MysqlDBType == "mysql"

SqliteDBType == "sqlite3"

escapeField(s, fieldName) ==
    IF s.dbType = MysqlDBType
    THEN <<Backtick>> \o fieldName \o <<Backtick>>
    ELSE IF s.dbType = PostgresDBType \/ s.dbType = SqliteDBType
         THEN <<"\"">> \o fieldName \o <<"\"">>
         ELSE fieldName

\* parameterPlaceholder that reads a second field of the store: "?" on a
\* Postgres store with binary parameters
parameterPlaceholder_BinaryParam(s, count) ==
    IF s.dbType = PostgresDBType /\ s.isBinaryParam THEN <<"?">>
    ELSE IF s.dbType = PostgresDBType \/ s.dbType = SqliteDBType
         THEN <<"$">> \o FormatInt(count)
         ELSE IF s.dbType = MysqlDBType THEN <<"?">> ELSE <<>>

\* parameterPlaceholder with SQLite left out of the "$" dialects
parameterPlaceholder_NoSqlite(s, count) ==
    IF s.dbType = PostgresDBType THEN <<"$">> \o FormatInt(count)
    ELSE IF s.dbType = MysqlDBType \/ s.dbType = SqliteDBType THEN <<"?">> ELSE <<>>

parameterPlaceholder(s, count) ==
    IF s.dbType = PostgresDBType \/ s.dbType = SqliteDBType
    THEN <<"$">> \o FormatInt(count)
    ELSE IF s.dbType = MysqlDBType THEN <<"?">> ELSE <<>>

\* concatenationSelector that hands SQLite the delimiter too
concatenationSelector_SqliteDelimiter(s, field, delimiter) ==
    IF s.dbType = SqliteDBType
    THEN <<"g", "r", "o", "u", "p", "_", "c", "o", "n", "c", "a", "t", "(">> \o field \o <<",", " ", "'">> \o delimiter \o <<"'", ")">>
    ELSE IF s.dbType = PostgresDBType
         THEN <<"s", "t", "r", "i", "n", "g", "_", "a", "g", "g", "(">> \o field \o <<",", " ", "'">> \o delimiter \o <<"'", ")">>
         ELSE IF s.dbType = MysqlDBType
              THEN <<"G", "R", "O", "U", "P", "_", "C", "O", "N", "C", "A", "T", "(">> \o field \o <<" ", "S", "E", "P", "A", "R", "A", "T", "O", "R", " ", "'">> \o delimiter \o <<"'", ")">>
              ELSE <<>>

concatenationSelector(s, field, delimiter) ==
    IF s.dbType = SqliteDBType
    THEN <<"g", "r", "o", "u", "p", "_", "c", "o", "n", "c", "a", "t", "(">> \o field \o <<")">>
    ELSE IF s.dbType = PostgresDBType
         THEN <<"s", "t", "r", "i", "n", "g", "_", "a", "g", "g", "(">> \o field \o <<",", " ", "'">> \o delimiter \o <<"'", ")">>
         ELSE IF s.dbType = MysqlDBType
              THEN <<"G", "R", "O", "U", "P", "_", "C", "O", "N", "C", "A", "T", "(">> \o field \o <<" ", "S", "E", "P", "A", "R", "A", "T", "O", "R", " ", "'">> \o delimiter \o <<"'", ")">>
              ELSE <<>>

\* elementInColumn with the arguments of position() in the order of instr()
elementInColumn_Swapped(s, parameterCount, column) ==
    IF s.dbType = SqliteDBType \/ s.dbType = MysqlDBType
    THEN <<"i", "n", "s", "t", "r", "(">> \o column \o <<",", " ">> \o parameterPlaceholder(s, parameterCount) \o <<")", " ", ">", " ", "0">>
    ELSE IF s.dbType = PostgresDBType
         THEN <<"p", "o", "s", "i", "t", "i", "o", "n", "(">> \o column \o <<" ", "i", "n", " ">>
              \o parameterPlaceholder(s, parameterCount) \o <<")", " ", ">", " ", "0">>
         ELSE <<>>

elementInColumn(s, parameterCount, column) ==
    IF s.dbType = SqliteDBType \/ s.dbType = MysqlDBType
    THEN <<"i", "n", "s", "t", "r", "(">> \o column \o <<",", " ">> \o parameterPlaceholder(s, parameterCount) \o <<")", " ", ">", " ", "0">>
    ELSE IF s.dbType = PostgresDBType
         THEN <<"p", "o", "s", "i", "t", "i", "o", "n", "(">> \o parameterPlaceholder(s, parameterCount) \o <<" ", "i", "n", " ">>
              \o column \o <<")", " ", ">", " ", "0">>
         ELSE <<>>

\* durationSelector that drops the error of strconv.Atoi and goes on with
\* the zero Atoi returned
durationSelectorOf_ErrorDropped(interval, intervalMagnitude, now) ==
    IF Contains(interval, <<"d", "a", "y">>)
    THEN [outcome |-> "return",
          out |-> FormatRFC3339(AddDate(now, 0, 0, -1 * intervalMagnitude.val))]
    ELSE IF Contains(interval, <<"m", "o", "n", "t", "h">>)
    THEN [outcome |-> "return",
          out |-> FormatRFC3339(AddDate(now, 0, -1 * intervalMagnitude.val, 0))]
    ELSE IF Contains(interval, <<"y", "e", "a", "r">>)
    THEN [outcome |-> "return",
          out |-> FormatRFC3339(AddDate(now, -1 * intervalMagnitude.val, 0, 0))]
    ELSE [outcome |-> "return", out |-> FormatRFC3339(now)]

\* durationSelector that looks for "month" before "day"
durationSelectorOf_MonthFirst(interval, intervalMagnitude, now) ==
    IF intervalMagnitude.err # ""
    THEN [outcome |-> "exit2", out |-> <<>>]
    ELSE IF Contains(interval, <<"m", "o", "n", "t", "h">>)
    THEN [outcome |-> "return",
          out |-> FormatRFC3339(AddDate(now, 0, -1 * intervalMagnitude.val, 0))]
    ELSE IF Contains(interval, <<"d", "a", "y">>)
    THEN [outcome |-> "return",
          out |-> FormatRFC3339(AddDate(now, 0, 0, -1 * intervalMagnitude.val))]
    ELSE IF Contains(interval, <<"y", "e", "a", "r">>)
    THEN [outcome |-> "return",
          out |-> FormatRFC3339(AddDate(now, -1 * intervalMagnitude.val, 0, 0))]
    ELSE [outcome |-> "return", out |-> FormatRFC3339(now)]

\* durationSelector, after strconv.Atoi: intervalMagnitude is what Atoi returned
durationSelectorOf(interval, intervalMagnitude, now) ==
    IF intervalMagnitude.err # ""
    THEN [outcome |-> "exit2", out |-> <<>>]
    ELSE IF Contains(interval, <<"d", "a", "y">>)
    THEN [outcome |-> "return",
          out |-> FormatRFC3339(AddDate(now, 0, 0, -1 * intervalMagnitude.val))]
    ELSE IF Contains(interval, <<"m", "o", "n", "t", "h">>)
    THEN [outcome |-> "return",
          out |-> FormatRFC3339(AddDate(now, 0, -1 * intervalMagnitude.val, 0))]
    ELSE IF Contains(interval, <<"y", "e", "a", "r">>)
    THEN [outcome |-> "return",
          out |-> FormatRFC3339(AddDate(now, -1 * intervalMagnitude.val, 0, 0))]
    ELSE [outcome |-> "return", out |-> FormatRFC3339(now)]

\* The outcome of durationSelector when time.Now() reads now: it returns a
\* string, calls os.Exit(2), or panics with an index out of range on
\* strings.Fields(interval)[0] when the interval has no field.
durationSelector(s, interval, now) ==
    IF Fields(interval) = <<>>
    THEN [outcome |-> "panic", out |-> <<>>]
    ELSE durationSelectorOf(interval, Atoi(Fields(interval)[1]), now)

\* computeBinaryParam, once url.Parse has returned
binaryParamOf(url) ==
    IF url.err # ""
    THEN [value |-> FALSE, err |-> url.err, parsed |-> TRUE]
    ELSE [value |-> Get(parseQuery(url.RawQuery), <<"b", "i", "n", "a", "r", "y", "_", "p", "a", "r", "a", "m", "e", "t", "e", "r", "s">>) = <<"y", "e", "s">>,
          err |-> "", parsed |-> TRUE]

\* computeBinaryParam that parses the connection string before it looks at
\* the engine
computeBinaryParam_ParseFirst(s) ==
    IF urlParse(s.connectionString).err # "" \/ s.dbType = PostgresDBType
    THEN binaryParamOf(urlParse(s.connectionString))
    ELSE [value |-> FALSE, err |-> "", parsed |-> TRUE]

\* computeBinaryParam: value and err are what it returns; parsed records
\* whether it handed the connection string to url.Parse
computeBinaryParam(s) ==
    IF s.dbType # PostgresDBType
    THEN [value |-> FALSE, err |-> "", parsed |-> FALSE]
    ELSE binaryParamOf(urlParse(s.connectionString))

\* DBHandle and DBType return a field of the store
DBHandle(s) == s.db

DBType(s) == s.dbType

\* getQueryBuilder: the placeholder format of the statement builder (squirrel's
\* default is the question mark) and the runner it is bound to
getQueryBuilder(s, db) ==
    [PlaceholderFormat |->
         IF s.dbType = PostgresDBType \/ s.dbType = SqliteDBType THEN "Dollar" ELSE "Question",
     RunWith |-> db]

(***************************************************************************)
(* The inputs the model draws from.                                         *)
(***************************************************************************)
\* the three engines of server/model and one the helpers do not know
DBTypes == {PostgresDBType, MysqlDBType, SqliteDBType, "cockroach"}

\* Connection strings, each with what net/url makes of it: whether url.Parse
\* accepts it and the first value of its binary_parameters query parameter
\* (empty when it has none).
ConnectionCases ==
    { [conn |-> <<"p", "o", "s", "t", "g", "r", "e", "s", ":", "/", "/", "u", ":", "p", "@", "h", ":", "5", "4", "3", "2", "/", "d", "b", "?", "a", "=", "b", "&", "b", "i", "n", "a", "r", "y", "_", "p", "a", "r", "a", "m", "e", "t", "e", "r", "s", "=", "y", "e", "s">>,
       parses |-> TRUE, binaryParameters |-> <<"y", "e", "s">>],
      [conn |-> <<"p", "o", "s", "t", "g", "r", "e", "s", ":", "/", "/", "h", "/", "d", "b", "?", "b", "i", "n", "a", "r", "y", "_", "p", "a", "r", "a", "m", "e", "t", "e", "r", "s", "=", "n", "o">>,
       parses |-> TRUE, binaryParameters |-> <<"n", "o">>],
      [conn |-> <<"p", "o", "s", "t", "g", "r", "e", "s", ":", "/", "/", "h", "/", "d", "b">>, parses |-> TRUE, binaryParameters |-> <<>>],
      [conn |-> <<"p", "o", "s", "t", "g", "r", "e", "s", ":", "/", "/", "h", "/", "d", "b", "?", "b", "i", "n", "a", "r", "y", "_", "p", "a", "r", "a", "m", "e", "t", "e", "r", "s", "=", "y", "e", "s", "&", "b", "i", "n", "a", "r", "y", "_", "p", "a", "r", "a", "m", "e", "t", "e", "r", "s", "=", "n", "o">>,
       parses |-> TRUE, binaryParameters |-> <<"y", "e", "s">>],
      [conn |-> <<"p", "o", "s", "t", "g", "r", "e", "s", ":", "/", "/", "h", "/", "d", "b", "?", "b", "i", "n", "a", "r", "y", "_", "p", "a", "r", "a", "m", "e", "t", "e", "r", "s", "=", "n", "o", "&", "b", "i", "n", "a", "r", "y", "_", "p", "a", "r", "a", "m", "e", "t", "e", "r", "s", "=", "y", "e", "s">>,
       parses |-> TRUE, binaryParameters |-> <<"n", "o">>],
      [conn |-> <<"p", "o", "s", "t", "g", "r", "e", "s", ":", "/", "/", "h", "/", "d", "b", "?", "b", "i", "n", "a", "r", "y", "_", "p", "a", "r", "a", "m", "e", "t", "e", "r", "s", "=", "Y", "E", "S">>,
       parses |-> TRUE, binaryParameters |-> <<"Y", "E", "S">>],
      [conn |-> <<"p", "o", "s", "t", "g", "r", "e", "s", ":", "/", "/", "h", "/", "d", "b", "?", "b", "i", "n", "a", "r", "y", "_", "p", "a", "r", "a", "m", "e", "t", "e", "r", "s", "=", "y", "e", "s", "+">>,
       parses |-> TRUE, binaryParameters |-> <<"y", "e", "s", " ">>],
      [conn |-> <<"p", "o", "s", "t", "g", "r", "e", "s", ":", "/", "/", "h", "/", "d", "b", "?", "b", "i", "n", "a", "r", "y", "_", "p", "a", "r", "a", "m", "e", "t", "e", "r", "s", "=", "%", "7", "9", "e", "s">>,
       parses |-> TRUE, binaryParameters |-> <<"y", "e", "s">>],
      [conn |-> <<"p", "o", "s", "t", "g", "r", "e", "s", ":", "/", "/", "h", "/", "d", "b", "?", "x", "=", "%", "z", "z", "&", "b", "i", "n", "a", "r", "y", "_", "p", "a", "r", "a", "m", "e", "t", "e", "r", "s", "=", "y", "e", "s", "#", "t", "o", "p">>,
       parses |-> TRUE, binaryParameters |-> <<"y", "e", "s">>],
      [conn |-> <<"h", "/", "d", "b", "?", "b", "i", "n", "a", "r", "y", "_", "p", "a", "r", "a", "m", "e", "t", "e", "r", "s", "=", "y", "e", "s">>,
       parses |-> TRUE, binaryParameters |-> <<"y", "e", "s">>],
      [conn |-> <<"u", ":", "p", "@", "t", "c", "p", "(", "h", ":", "3", "3", "0", "6", ")", "/", "d", "b", "?", "b", "i", "n", "a", "r", "y", "_", "p", "a", "r", "a", "m", "e", "t", "e", "r", "s", "=", "y", "e", "s">>,
       parses |-> TRUE, binaryParameters |-> <<"y", "e", "s">>],
      [conn |-> <<"f", "i", "l", "e", ".", "d", "b">>, parses |-> TRUE, binaryParameters |-> <<>>],
      [conn |-> <<":", "/", "/", "h", "/", "d", "b", "?", "b", "i", "n", "a", "r", "y", "_", "p", "a", "r", "a", "m", "e", "t", "e", "r", "s", "=", "y", "e", "s">>,
       parses |-> FALSE, binaryParameters |-> <<>>],
      [conn |-> <<"p", "o", "s", "t", "g", "r", "e", "s", ":", "/", "/", "h", ":", "p", "o", "r", "t", "/", "d", "b", "?", "b", "i", "n", "a", "r", "y", "_", "p", "a", "r", "a", "m", "e", "t", "e", "r", "s", "=", "y", "e", "s">>,
       parses |-> FALSE, binaryParameters |-> <<>>],
      [conn |-> <<"1", "2", "7", ".", "0", ".", "0", ".", "1", ":", "5", "4", "3", "2", "/", "d", "b", "?", "b", "i", "n", "a", "r", "y", "_", "p", "a", "r", "a", "m", "e", "t", "e", "r", "s", "=", "y", "e", "s">>,
       parses |-> FALSE, binaryParameters |-> <<>>],
      [conn |-> <<"p", "o", "s", "t", "g", "r", "e", "s", ":", "/", "/", "h", "/", "%", "z", "z", "?", "b", "i", "n", "a", "r", "y", "_", "p", "a", "r", "a", "m", "e", "t", "e", "r", "s", "=", "y", "e", "s">>,
       parses |-> FALSE, binaryParameters |-> <<>>],
      [conn |-> <<"p", "o", "s", "t", "g", "r", "e", "s", ":", "/", "/", "h", "/", "d", "b", "?", "b", "i", "n", "a", "r", "y", "_", "p", "a", "r", "a", "m", "e", "t", "e", "r", "s", "=", "y", "e", "s", "\n">>,
       parses |-> FALSE, binaryParameters |-> <<>>] }

ConnectionStrings == {c.conn : c \in ConnectionCases}

FieldNames == {<<"n", "a", "m", "e">>, <<>>, <<"a", Backtick, "b", "\"", "c">>}

Delimiters == {<<",">>, <<" ", "|", " ">>}

Columns == {<<"c", ".", "m", "e", "m", "b", "e", "r", "s">>, <<"x">>}

\* the ordinals of a statement's parameters, one of two digits among them
Ordinals == {-1, 0, 1, MaxOrdinal}

Intervals ==
    { <<"2", " ", "d", "a", "y", "s">>, <<"1", " ", "m", "o", "n", "t", "h">>, <<"3", " ", "y", "e", "a", "r", "s">>, <<"5", " ", "f", "o", "r", "t", "n", "i", "g", "h", "t", "s">>, <<"7">>, <<"a", "b", "c", " ", "d", "a", "y", "s">>, <<"5", "d", "a", "y", "s">>,
      <<"1", " ", "m", "o", "n", "t", "h", "d", "a", "y">>, <<"1", " ", "y", "e", "a", "r", "m", "o", "n", "t", "h">>, <<"-", "2", " ", "d", "a", "y", "s">>, <<"+", "1", " ", "y", "e", "a", "r">>, <<"\t", " ", "1", "4", " ", "m", "o", "n", "t", "h", "s", " ">>, <<"3", "1", " ", "d", "a", "y", "s">>,
      <<"9", "9", "9", "9", "9", "9", "9", "9", "9", "9", "9", "9", "9", "9", "9", "9", "9", "9", "9", "9", " ", "d", "a", "y", "s">>, <<"1", "_", "0", " ", "d", "a", "y", "s">>, <<"-", " ", "d", "a", "y", "s">>, <<>>, <<" ", " ">>, <<"\t", "\n">> }

\* the instants a run may start at
Time(year, month, day, hour, min, sec) ==
    [year |-> year, month |-> month, day |-> day, hour |-> hour, min |-> min, sec |-> sec]

StartInstants ==
    { Time(2024, 3, 31, 8, 30, 5), Time(2023, 12, 31, 23, 59, 59),
      Time(2024, 2, 28, 12, 0, 0), Time(2025, 1, 30, 0, 0, 0) }

\* the errors CheckValid and Migrate may return; "" is nil
CheckValidErrors == {"", "ErrStoreParam"}

MigrateErrors == {"", "ErrMigrate"}

\* the engine and connection string a store is built with: every
\* connection string with Postgres, and with any other engine a file name,
\* a connection string that asks for binary parameters and one url.Parse
\* would reject
Configurations ==
    ({PostgresDBType} \X ConnectionStrings)
    \cup ((DBTypes \ {PostgresDBType})
          \X {<<"f", "i", "l", "e", ".", "d", "b">>, <<"u", ":", "p", "@", "t", "c", "p", "(", "h", ":", "3", "3", "0", "6", ")", "/", "d", "b", "?", "b", "i", "n", "a", "r", "y", "_", "p", "a", "r", "a", "m", "e", "t", "e", "r", "s", "=", "y", "e", "s">>,
              <<":", "/", "/", "h", "/", "d", "b", "?", "b", "i", "n", "a", "r", "y", "_", "p", "a", "r", "a", "m", "e", "t", "e", "r", "s", "=", "y", "e", "s">>})

\* the Params New is given; of its fields only DBType and ConnectionString vary
Params(dbType, connectionString) ==
    [DB |-> "db", DBType |-> dbType, TablePrefix |-> <<"f", "o", "c", "a", "l", "b", "o", "a", "r", "d", "_">>,
     ConnectionString |-> connectionString, Logger |-> "logger", IsPlugin |-> FALSE,
     IsSingleUser |-> FALSE, NewMutexFn |-> "nil", PluginAPI |-> "nil"]

ParamsSet == {Params(c[1], c[2]) : c \in Configurations}

(***************************************************************************)
(* The state.                                                               *)
(***************************************************************************)
VARIABLES
    store,   \* the SQLStore New returned, NoStore while there is none
    given,   \* what the latest call of New was given
    now,     \* what time.Now() reads
    ticks,   \* how many days the clock has advanced
    proc,    \* "running", "exit2" after os.Exit(2), "panic" after a run-time panic
    last,    \* the latest call: its operation, arguments, receiver and results
    ref      \* a call kept to compare later calls with

vars == <<store, given, now, ticks, proc, last, ref>>

NoTime == Time(0, 0, 0, 0, 0, 0)

NoStore ==
    [constructed |-> FALSE, db |-> "nil", dbType |-> "", tablePrefix |-> <<>>,
     connectionString |-> <<>>, isPlugin |-> FALSE, isSingleUser |-> FALSE,
     logger |-> "nil", NewMutexFn |-> "nil", pluginAPI |-> "nil", isBinaryParam |-> FALSE]

NoGiven == [params |-> [DBType |-> "", ConnectionString |-> <<>>],
            checkValidErr |-> "", migrateErr |-> ""]

NoBinaryParam == [value |-> FALSE, err |-> "", parsed |-> FALSE]

\* a call record: n, a and b are the arguments, dbType and conn the receiver's
\* fields, out the string returned, outcome how the call ended, at what
\* time.Now() read in it, steps the calls New made, bp what computeBinaryParam
\* returned, nonNil whether New returned a store, err the error returned
NoCall ==
    [op |-> "", n |-> 0, a |-> <<>>, b |-> <<>>, dbType |-> "", conn |-> <<>>,
     out |-> <<>>, outcome |-> "", at |-> NoTime, steps |-> <<>>,
     bp |-> NoBinaryParam, nonNil |-> FALSE, err |-> ""]

Call(op, s) ==
    [NoCall EXCEPT !.op = op, !.dbType = s.dbType, !.conn = s.connectionString,
                   !.outcome = "return"]

Init ==
    /\ store = NoStore
    /\ given = NoGiven
    /\ now \in StartInstants
    /\ ticks = 0
    /\ proc = "running"
    /\ last = NoCall
    /\ ref = NoCall

(***************************************************************************)
(* New.  CheckValid and Migrate are calls into the rest of the store:       *)
(* checkValidErr and migrateErr are the errors they return when called.     *)
(* The result records the calls New made, in order, and what it returned.   *)
(***************************************************************************)
\* the store literal with the best-known copy-and-paste slip: dbType is set
\* from the wrong field of the parameters
NewStore_WrongField(params) ==
    [constructed |-> TRUE, db |-> params.DB, dbType |-> params.DB,
     tablePrefix |-> params.TablePrefix, connectionString |-> params.ConnectionString,
     isPlugin |-> params.IsPlugin, isSingleUser |-> params.IsSingleUser,
     logger |-> params.Logger, NewMutexFn |-> params.NewMutexFn,
     pluginAPI |-> params.PluginAPI, isBinaryParam |-> FALSE]

\* the store New builds before it calls computeBinaryParam
NewStore(params) ==
    [constructed |-> TRUE, db |-> params.DB, dbType |-> params.DBType,
     tablePrefix |-> params.TablePrefix, connectionString |-> params.ConnectionString,
     isPlugin |-> params.IsPlugin, isSingleUser |-> params.IsSingleUser,
     logger |-> params.Logger, NewMutexFn |-> params.NewMutexFn,
     pluginAPI |-> params.PluginAPI, isBinaryParam |-> FALSE]

\* New that logs the error of computeBinaryParam and goes on
NewWith_LogOnly(s, bp, migrateErr) ==
    IF migrateErr # ""
    THEN [store |-> NoStore, steps |-> <<"CheckValid", "computeBinaryParam", "Migrate">>,
          bp |-> bp, err |-> migrateErr]
    ELSE [store |-> [s EXCEPT !.isBinaryParam = bp.value],
          steps |-> <<"CheckValid", "computeBinaryParam", "Migrate">>,
          bp |-> bp, err |-> ""]

\* New, from the call of computeBinaryParam on: bp is what it returned
NewWith(s, bp, migrateErr) ==
    IF bp.err # ""
    THEN [store |-> NoStore, steps |-> <<"CheckValid", "computeBinaryParam">>,
          bp |-> bp, err |-> bp.err]
    ELSE IF migrateErr # ""
    THEN [store |-> NoStore, steps |-> <<"CheckValid", "computeBinaryParam", "Migrate">>,
          bp |-> bp, err |-> migrateErr]
    ELSE [store |-> [s EXCEPT !.isBinaryParam = bp.value],
          steps |-> <<"CheckValid", "computeBinaryParam", "Migrate">>,
          bp |-> bp, err |-> ""]

New(params, checkValidErr, migrateErr) ==
    IF checkValidErr # ""
    THEN [store |-> NoStore, steps |-> <<"CheckValid">>, bp |-> NoBinaryParam,
          err |-> checkValidErr]
    ELSE NewWith(NewStore(params), computeBinaryParam(NewStore(params)), migrateErr)

(***************************************************************************)
(* The actions: one per call a client of the package makes.                 *)
(***************************************************************************)
\* r is what New returns
Returned(params, checkValidErr, migrateErr, r) ==
    /\ proc = "running"
    /\ given' = [params |-> params, checkValidErr |-> checkValidErr,
                 migrateErr |-> migrateErr]
    /\ store' = IF r.store.constructed THEN r.store ELSE store
    /\ last' = [NoCall EXCEPT !.op = "New", !.dbType = params.DBType,
                              !.conn = params.ConnectionString, !.outcome = "return",
                              !.steps = r.steps, !.bp = r.bp, !.err = r.err,
                              !.nonNil = r.store.constructed]
    /\ UNCHANGED <<now, ticks, proc, ref>>

DoNew(params, checkValidErr, migrateErr) ==
    Returned(params, checkValidErr, migrateErr, New(params, checkValidErr, migrateErr))

\* the process constructs its store once, at start-up: a failure of New is
\* fatal to it
Construct(params, checkValidErr, migrateErr) ==
    /\ ~store.constructed
    /\ last.op = ""
    /\ DoNew(params, checkValidErr, migrateErr)

BinaryParamCall(s, bp) ==
    [Call("computeBinaryParam", s) EXCEPT !.bp = bp, !.err = bp.err]

DoComputeBinaryParam ==
    /\ proc = "running" /\ store.constructed
    /\ last' = BinaryParamCall(store, computeBinaryParam(store))
    /\ UNCHANGED <<store, given, now, ticks, proc, ref>>

DoDBHandle ==
    /\ proc = "running" /\ store.constructed
    /\ last' = [Call("DBHandle", store) EXCEPT !.out = <<DBHandle(store)>>]
    /\ UNCHANGED <<store, given, now, ticks, proc, ref>>

DoDBType ==
    /\ proc = "running" /\ store.constructed
    /\ last' = [Call("DBType", store) EXCEPT !.out = <<DBType(store)>>]
    /\ UNCHANGED <<store, given, now, ticks, proc, ref>>

QueryBuilderCall(s, builder) ==
    [Call("getQueryBuilder", s) EXCEPT !.out = <<builder.PlaceholderFormat, builder.RunWith>>]

DoGetQueryBuilder ==
    /\ proc = "running" /\ store.constructed
    /\ last' = QueryBuilderCall(store, getQueryBuilder(store, store.db))
    /\ UNCHANGED <<store, given, now, ticks, proc, ref>>

DoEscapeField(fieldName) ==
    /\ proc = "running" /\ store.constructed
    /\ last' = [Call("escapeField", store) EXCEPT
                    !.a = fieldName, !.out = escapeField(store, fieldName)]
    /\ UNCHANGED <<store, given, now, ticks, proc, ref>>

DoParameterPlaceholder(count) ==
    /\ proc = "running" /\ store.constructed
    /\ last' = [Call("parameterPlaceholder", store) EXCEPT
                    !.n = count, !.out = parameterPlaceholder(store, count)]
    /\ UNCHANGED <<store, given, now, ticks, proc, ref>>

DoConcatenationSelector(field, delimiter) ==
    /\ proc = "running" /\ store.constructed
    /\ last' = [Call("concatenationSelector", store) EXCEPT
                    !.a = field, !.b = delimiter,
                    !.out = concatenationSelector(store, field, delimiter)]
    /\ UNCHANGED <<store, given, now, ticks, proc, ref>>

DoElementInColumn(parameterCount, column) ==
    /\ proc = "running" /\ store.constructed
    /\ last' = [Call("elementInColumn", store) EXCEPT
                    !.n = parameterCount, !.a = column,
                    !.out = elementInColumn(store, parameterCount, column)]
    /\ UNCHANGED <<store, given, now, ticks, proc, ref>>

\* os.Exit(2) ends the process; so does the panic, which nothing in the
\* package recovers
DurationSelected(interval, r) ==
    /\ proc = "running" /\ store.constructed
    /\ last' = [Call("durationSelector", store) EXCEPT
                    !.a = interval, !.at = now, !.out = r.out, !.outcome = r.outcome]
    /\ proc' = IF r.outcome = "return" THEN "running" ELSE r.outcome
    /\ UNCHANGED <<store, given, now, ticks, ref>>

DoDurationSelector(interval) ==
    DurationSelected(interval, durationSelector(store, interval, now))

\* a day passes
Tick ==
    /\ proc = "running"
    /\ ticks < MaxTicks
    /\ now' = AddDate(now, 0, 0, 1)
    /\ ticks' = ticks + 1
    /\ UNCHANGED <<store, given, proc, last, ref>>

Next ==
    \/ \E params \in ParamsSet, cv \in CheckValidErrors, mg \in MigrateErrors :
           Construct(params, cv, mg)
    \/ DoComputeBinaryParam
    \/ DoDBHandle
    \/ DoDBType
    \/ DoGetQueryBuilder
    \/ \E fieldName \in FieldNames : DoEscapeField(fieldName)
    \/ \E count \in Ordinals : DoParameterPlaceholder(count)
    \/ \E field \in FieldNames, delimiter \in Delimiters :
           DoConcatenationSelector(field, delimiter)
    \/ \E count \in Ordinals, column \in Columns : DoElementInColumn(count, column)
    \/ \E interval \in Intervals : DoDurationSelector(interval)
    \/ Tick

Spec == Init /\ [][Next]_vars

(***************************************************************************)
(* The same store under a client that builds stores again and again and     *)
(* keeps a call to compare later calls with, on fewer inputs.               *)
(***************************************************************************)
DialectOperations ==
    {"escapeField", "parameterPlaceholder", "concatenationSelector", "elementInColumn",
     "durationSelector", "computeBinaryParam"}

PureConfigurations ==
    DBTypes \X {<<"p", "o", "s", "t", "g", "r", "e", "s", ":", "/", "/", "h", "/", "d", "b", "?", "b", "i", "n", "a", "r", "y", "_", "p", "a", "r", "a", "m", "e", "t", "e", "r", "s", "=", "y", "e", "s">>, <<"p", "o", "s", "t", "g", "r", "e", "s", ":", "/", "/", "h", "/", "d", "b">>}

PureIntervals == {<<"2", " ", "d", "a", "y", "s">>, <<"5", " ", "f", "o", "r", "t", "n", "i", "g", "h", "t", "s">>, <<"a", "b", "c", " ", "d", "a", "y", "s">>, <<>>}

PureInit ==
    /\ store = NoStore
    /\ given = NoGiven
    /\ now = Time(2024, 2, 28, 12, 0, 0)
    /\ ticks = 0
    /\ proc = "running"
    /\ last = NoCall
    /\ ref = NoCall

\* the client keeps the latest call of a dialect operation
Remember ==
    /\ proc = "running"
    /\ last.op \in DialectOperations
    /\ ref # last
    /\ ref' = last
    /\ UNCHANGED <<store, given, now, ticks, proc, last>>

PureNext ==
    \/ \E c \in PureConfigurations : DoNew(Params(c[1], c[2]), "", "")
    \/ DoComputeBinaryParam
    \/ DoEscapeField(<<"n", "a", "m", "e">>)
    \/ DoParameterPlaceholder(1)
    \/ DoConcatenationSelector(<<"n", "a", "m", "e">>, <<",">>)
    \/ DoElementInColumn(1, <<"x">>)
    \/ \E interval \in PureIntervals : DoDurationSelector(interval)
    \/ Tick
    \/ Remember

PureSpec == PureInit /\ [][PureNext]_vars

(***************************************************************************)
(* What the claims are stated with.                                         *)
(***************************************************************************)
Receiver(dbType) == [dbType |-> dbType]

\* a decimal numeral as fmt prints it: no "+", no leading zero, "-" only
\* before a non-zero magnitude
IsNumeral(s, n) ==
    /\ s # <<>>
    /\ Atoi(s) = [val |-> n, err |-> ""]
    /\ Head(s) # "+"
    /\ (Head(s) = "0" => Len(s) = 1)
    /\ (Head(s) = "-" => Len(s) > 1 /\ s[2] # "0")

\* C1: parameterPlaceholder(n) is "$" followed by n for Postgres and SQLite,
\* "?" for MySQL whatever n is and the empty string for any other dbType;
\* escapeField(name) is name in double quotes for Postgres and SQLite, in
\* backticks for MySQL and name itself for any other dbType.
C1_TokenHelpers ==
    /\ last.op = "parameterPlaceholder" =>
           IF last.dbType \in {PostgresDBType, SqliteDBType}
           THEN /\ Len(last.out) >= 2
                /\ Head(last.out) = "$"
                /\ IsNumeral(Tail(last.out), last.n)
           ELSE IF last.dbType = MysqlDBType
                THEN last.out = <<"?">>
                ELSE last.out = <<>>
    /\ last.op = "escapeField" =>
           IF last.dbType = MysqlDBType
           THEN last.out = <<Backtick>> \o last.a \o <<Backtick>>
           ELSE IF last.dbType \in {PostgresDBType, SqliteDBType}
                THEN last.out = <<"\"">> \o last.a \o <<"\"">>
                ELSE last.out = last.a

\* a two-digit ordinal on SQLite, and a name quoted for MySQL
C1_Witness ==
    \/ /\ last.op = "parameterPlaceholder" /\ last.dbType = SqliteDBType
       /\ last.n = MaxOrdinal /\ Len(last.out) = 3
    \/ /\ last.op = "escapeField" /\ last.dbType = MysqlDBType /\ Len(last.out) = 6

\* C2: concatenationSelector(field, delimiter) is group_concat(field) for
\* SQLite, whatever the delimiter, string_agg(field, 'delimiter') for Postgres,
\* GROUP_CONCAT(field SEPARATOR 'delimiter') for MySQL and the empty string
\* for any other dbType.
C2_ConcatenationSelector ==
    last.op = "concatenationSelector" =>
        last.out =
            CASE last.dbType = SqliteDBType -> <<"g", "r", "o", "u", "p", "_", "c", "o", "n", "c", "a", "t", "(">> \o last.a \o <<")">>
              [] last.dbType = PostgresDBType ->
                     <<"s", "t", "r", "i", "n", "g", "_", "a", "g", "g", "(">> \o last.a \o <<",", " ", "'">> \o last.b \o <<"'", ")">>
              [] last.dbType = MysqlDBType ->
                     <<"G", "R", "O", "U", "P", "_", "C", "O", "N", "C", "A", "T", "(">> \o last.a \o <<" ", "S", "E", "P", "A", "R", "A", "T", "O", "R", " ", "'">> \o last.b \o <<"'", ")">>
              [] OTHER -> <<>>

\* SQLite, with a delimiter that is not the comma
C2_Witness ==
    /\ last.op = "concatenationSelector" /\ last.dbType = SqliteDBType
    /\ last.a = <<"n", "a", "m", "e">> /\ last.b = <<" ", "|", " ">> /\ last.out = <<"g", "r", "o", "u", "p", "_", "c", "o", "n", "c", "a", "t", "(", "n", "a", "m", "e", ")">>

\* C3: elementInColumn(n, column) is "instr(column, P) > 0" for SQLite and
\* MySQL and "position(P in column) > 0" for Postgres, P being
\* parameterPlaceholder(n) of the same dbType, and the empty string for any
\* other dbType.
C3_ElementInColumn ==
    last.op = "elementInColumn" =>
        last.out =
            CASE last.dbType \in {SqliteDBType, MysqlDBType} ->
                     <<"i", "n", "s", "t", "r", "(">> \o last.a \o <<",", " ">>
                     \o parameterPlaceholder(Receiver(last.dbType), last.n) \o <<")", " ", ">", " ", "0">>
              [] last.dbType = PostgresDBType ->
                     <<"p", "o", "s", "i", "t", "i", "o", "n", "(">> \o parameterPlaceholder(Receiver(last.dbType), last.n)
                     \o <<" ", "i", "n", " ">> \o last.a \o <<")", " ", ">", " ", "0">>
              [] OTHER -> <<>>

C3_Witness ==
    /\ last.op = "elementInColumn" /\ last.dbType = PostgresDBType /\ last.n = 1
    /\ last.out = <<"p", "o", "s", "i", "t", "i", "o", "n", "(", "$", "1", " ", "i", "n", " ", "c", ".", "m", "e", "m", "b", "e", "r", "s", ")", " ", ">", " ", "0">>

\* what net/url makes of a connection string of the model
ConnectionCase(conn) == CHOOSE c \in ConnectionCases : c.conn = conn

\* the calls that ran computeBinaryParam: a direct call, and a call of New
\* that got past CheckValid
RanComputeBinaryParam ==
    last.op = "computeBinaryParam" \/ (last.op = "New" /\ Len(last.steps) >= 2)

\* C4: computeBinaryParam returns (true, nil) exactly when dbType is Postgres,
\* the connection string parses as a URL and its binary_parameters query
\* parameter is "yes"; for any other dbType it returns (false, nil) without
\* parsing, even a connection string that does not parse; for Postgres and a
\* connection string that does not parse it returns (false, the parse error).
C4_ComputeBinaryParam ==
    RanComputeBinaryParam =>
        /\ (last.bp.value /\ last.bp.err = "")
               <=> /\ last.dbType = PostgresDBType
                   /\ ConnectionCase(last.conn).parses
                   /\ ConnectionCase(last.conn).binaryParameters = <<"y", "e", "s">>
        /\ last.dbType # PostgresDBType =>
               last.bp = [value |-> FALSE, err |-> "", parsed |-> FALSE]
        /\ (last.dbType = PostgresDBType /\ ~ConnectionCase(last.conn).parses) =>
               /\ ~last.bp.value
               /\ last.bp.err # ""
               /\ last.bp.err \notin CheckValidErrors \cup MigrateErrors
        /\ (last.dbType = PostgresDBType /\ ConnectionCase(last.conn).parses) =>
               last.bp.err = ""

\* a store of another engine built on a connection string url.Parse rejects
C4_Witness ==
    /\ last.op = "computeBinaryParam"
    /\ last.dbType = MysqlDBType
    /\ ~ConnectionCase(last.conn).parses
    /\ last.bp = [value |-> FALSE, err |-> "", parsed |-> FALSE]

\* C5: New calls CheckValid, computeBinaryParam and Migrate in this order and
\* returns a store and no error only if all three succeed; at the first that
\* fails it returns (nil, that error) and calls nothing more, so a connection
\* string that does not parse ends New before Migrate.
C5_NewStepsInOrder ==
    last.op = "New" =>
        /\ given.checkValidErr # "" =>
               /\ last.steps = <<"CheckValid">>
               /\ last.err = given.checkValidErr
        /\ (given.checkValidErr = "" /\ last.dbType = PostgresDBType
            /\ ~ConnectionCase(last.conn).parses) =>
               /\ last.steps = <<"CheckValid", "computeBinaryParam">>
               /\ last.err # "" /\ last.err = last.bp.err
        /\ (given.checkValidErr = ""
            /\ ~(last.dbType = PostgresDBType /\ ~ConnectionCase(last.conn).parses)) =>
               /\ last.steps = <<"CheckValid", "computeBinaryParam", "Migrate">>
               /\ last.err = given.migrateErr
        /\ last.nonNil <=> last.err = ""
        /\ last.nonNil <=> store.constructed
        /\ last.nonNil =>
               /\ store.dbType = given.params.DBType
               /\ store.connectionString = given.params.ConnectionString
               /\ store.isBinaryParam = last.bp.value

\* a connection string that does not parse, with a Migrate that would fail too
C5_Witness ==
    /\ last.op = "New"
    /\ last.steps = <<"CheckValid", "computeBinaryParam">>
    /\ last.err = "invalid port after host"
    /\ given.migrateErr # ""
    /\ ~store.constructed

\* C9: once New has returned a store, no call changes a field of it, and
\* DBType returns the dbType New was given.
C9_StoreImmutable ==
    [][store.constructed =>
           /\ store' = store
           /\ given' = given
           /\ last'.op = "DBType" => last'.out = <<given.params.DBType>>]_vars

C9_Witness ==
    /\ store.constructed
    /\ ticks > 0
    /\ last.op = "DBType"
    /\ last.out = <<"cockroach">>

\* C10: durationSelector either returns a timestamp or ends the process with
\* exit status 2, for every interval, the empty one and those of white space
\* included; it fails in no other way.
C10_TwoOutcomes ==
    last.op = "durationSelector" => last.outcome \in {"return", "exit2"}

(***************************************************************************)
(* Intervals and timestamps, read independently of durationSelector.        *)
(***************************************************************************)
\* the interval from its first character that is no white space on
RECURSIVE TrimLeft(_)
TrimLeft(s) == IF s # <<>> /\ IsSpace(Head(s)) THEN TrimLeft(Tail(s)) ELSE s

\* the characters of s up to its first white space
RECURSIVE UpToSpace(_)
UpToSpace(s) ==
    IF s = <<>> \/ IsSpace(Head(s)) THEN <<>> ELSE <<Head(s)>> \o UpToSpace(Tail(s))

HasLeadingToken(interval) == TrimLeft(interval) # <<>>

LeadingToken(interval) == UpToSpace(TrimLeft(interval))

Unsigned(token) ==
    IF token # <<>> /\ Head(token) \in {"+", "-"} THEN Tail(token) ELSE token

\* an optional sign and decimal digits that an int can hold
IsValidInteger(token) ==
    /\ Unsigned(token) # <<>>
    /\ \A i \in 1..Len(Unsigned(token)) : IsDigit(Unsigned(token)[i])
    /\ FitsInt(Unsigned(token), Head(token) = "-")

IntegerOf(token) ==
    IF Head(token) = "-" THEN 0 - DecimalValue(Unsigned(token))
    ELSE DecimalValue(Unsigned(token))

\* the days from 1970-01-01 to a date of the proleptic Gregorian calendar
DayNumber(year, month, day) ==
    LET y == IF month <= 2 THEN year - 1 ELSE year
        era == y \div 400
        yoe == y - era * 400
        mp == IF month > 2 THEN month - 3 ELSE month + 9
        doy == (153 * mp + 2) \div 5 + day - 1
        doe == yoe * 365 + yoe \div 4 - yoe \div 100 + doy
    IN  era * 146097 + doe - 719468

\* an RFC 3339 timestamp in UTC, "YYYY-MM-DDThh:mm:ssZ", of a date that exists
IsTimestamp(out) ==
    /\ Len(out) = 20
    /\ \A i \in (1..19) \ {5, 8, 11, 14, 17} : IsDigit(out[i])
    /\ <<out[5], out[8], out[11], out[14], out[17], out[20]>> = <<"-", "-", "T", ":", ":", "Z">>
    /\ DecimalValue(SubSeq(out, 6, 7)) \in 1..12
    /\ DecimalValue(SubSeq(out, 9, 10))
           \in 1..DaysIn(DecimalValue(SubSeq(out, 6, 7)), DecimalValue(SubSeq(out, 1, 4)))

ParseTimestamp(out) ==
    Time(DecimalValue(SubSeq(out, 1, 4)), DecimalValue(SubSeq(out, 6, 7)),
         DecimalValue(SubSeq(out, 9, 10)), DecimalValue(SubSeq(out, 12, 13)),
         DecimalValue(SubSeq(out, 15, 16)), DecimalValue(SubSeq(out, 18, 19)))

DayOf(t) == DayNumber(t.year, t.month, t.day)

TimeOfDay(t) == <<t.hour, t.min, t.sec>>

\* the first day of the month that lies months before the month of t
MonthStart(t, months) ==
    DayNumber((t.year * 12 + t.month - 1 - months) \div 12,
              ((t.year * 12 + t.month - 1 - months) % 12) + 1, 1)

\* t is the instant at shifted back by n units: n days before it, or the day
\* of the month of at counted from the first day of the month that lies n
\* months (12 * n for years) before the month of at
ShiftedBack(t, at, n, unit) ==
    /\ TimeOfDay(t) = TimeOfDay(at)
    /\ DayOf(t) = CASE unit = "day" -> DayOf(at) - n
                    [] unit = "month" -> MonthStart(at, n) + at.day - 1
                    [] unit = "year" -> MonthStart(at, 12 * n) + at.day - 1
                    [] OTHER -> DayOf(at)

\* the first of "day", "month", "year" that occurs in the interval
UnitOf(interval) ==
    IF \E i \in 1..(Len(interval) - 2) : SubSeq(interval, i, i + 2) = <<"d", "a", "y">> THEN "day"
    ELSE IF \E i \in 1..(Len(interval) - 4) : SubSeq(interval, i, i + 4) = <<"m", "o", "n", "t", "h">> THEN "month"
    ELSE IF \E i \in 1..(Len(interval) - 3) : SubSeq(interval, i, i + 3) = <<"y", "e", "a", "r">> THEN "year"
    ELSE "none"

\* C6: for an interval whose leading token is not a valid integer,
\* durationSelector ends the process with exit status 2 and returns no
\* timestamp, whatever unit the interval names and whatever the dbType.
C6_MalformedIntervalExits ==
    (/\ last.op = "durationSelector"
     /\ HasLeadingToken(last.a)
     /\ ~IsValidInteger(LeadingToken(last.a))) =>
        /\ last.outcome = "exit2"
        /\ last.out = <<>>
        /\ proc = "exit2"
        /\ ~ENABLED Next

\* a magnitude too large for an int, in front of a unit
C6_Witness ==
    /\ last.op = "durationSelector"
    /\ last.a = <<"9", "9", "9", "9", "9", "9", "9", "9", "9", "9", "9", "9", "9", "9", "9", "9", "9", "9", "9", "9", " ", "d", "a", "y", "s">>
    /\ last.dbType = "cockroach"
    /\ proc = "exit2"

\* C7: for an interval whose leading token is an integer n, durationSelector
\* returns the current time shifted back by n units of the first of "day",
\* "month", "year" that occurs in the interval, and the current time itself
\* when none occurs.
C7_ShiftedTimestamp ==
    (/\ last.op = "durationSelector"
     /\ HasLeadingToken(last.a)
     /\ IsValidInteger(LeadingToken(last.a))) =>
        /\ last.outcome = "return"
        /\ proc = "running"
        /\ IsTimestamp(last.out)
        /\ ShiftedBack(ParseTimestamp(last.out), last.at,
                       IntegerOf(LeadingToken(last.a)), UnitOf(last.a))

\* an interval that names the month and the day: the day decides
C7_Witness ==
    /\ last.op = "durationSelector"
    /\ last.a = <<"1", " ", "m", "o", "n", "t", "h", "d", "a", "y">>
    /\ last.at = Time(2024, 3, 31, 8, 30, 5)
    /\ last.out = <<"2", "0", "2", "4", "-", "0", "3", "-", "3", "0", "T", "0", "8", ":", "3", "0", ":", "0", "5", "Z">>

\* the latest call and the call kept are calls of the same dialect operation
\* with the same arguments, on stores of the same dbType (and, for
\* computeBinaryParam, the same connection string)
SameCall ==
    /\ ref.op \in DialectOperations
    /\ last.op = ref.op
    /\ <<last.n, last.a, last.b>> = <<ref.n, ref.a, ref.b>>
    /\ last.dbType = ref.dbType
    /\ last.op = "computeBinaryParam" => last.conn = ref.conn

SameResult ==
    <<last.outcome, last.out, last.bp, last.err>> = <<ref.outcome, ref.out, ref.bp, ref.err>>

\* C8 as stated: every dialect operation, durationSelector included, is a
\* pure function of dbType and its arguments: two calls with the same
\* arguments on stores of the same dbType return the same, whenever made.
C8_AllPure == SameCall => SameResult

\* C8, amended: every dialect operation but durationSelector is such a pure
\* function; durationSelector depends on what time.Now() reads as well, and
\* two calls of it with the same interval return the same when time.Now()
\* reads the same instant in both.
C8_PureButForTheClock ==
    (SameCall /\ (last.op = "durationSelector" => last.at = ref.at)) => SameResult

\* the same call on two stores of one dbType built on different connection
\* strings, and durationSelector called twice at one instant
C8_Witness ==
    /\ SameCall
    /\ last.conn # ref.conn
    /\ last.op = "durationSelector"
    /\ last.a = <<"2", " ", "d", "a", "y", "s">>
    /\ last.at = ref.at
    /\ ticks > 0

====
